---- MODULE Spec2Model ----
(***************************************************************************)
(* Hybrid retrieval of GeoRAG: HybridRetriever.retrieve and the two        *)
(* sub-retrievals it gathers (backend/app/services/retriever.py), the      *)
(* Qdrant client (vector_store.py) and the database session (database.py). *)
(*                                                                         *)
(* One behaviour is one request to RAGService.query or query_stream        *)
(* (rag_service.py, api/query.py) and the one call of retrieve it makes.   *)
(* The vector retrieval and the database retrieval are two asyncio tasks;  *)
(* every action is the code between two suspension points of one           *)
(* coroutine.                                                              *)
(*                                                                         *)
(* Numbers.  Python floats are modelled by exact fractions [n, d] with     *)
(* d > 0; two scores are compared by cross multiplication.  Coordinates    *)
(* are whole degrees, instants are whole numbers (signed).                 *)
(* Optional values.  Python's None is the empty sequence << >>, a present  *)
(* value x is <<x>>.                                                       *)
(***************************************************************************)
EXTENDS Integers, Sequences, FiniteSets, TLC

VARIABLES
    query_intent,      \* the QueryIntent of the call: geo_filter, time_filter
    top_k,             \* the top_k argument of retrieve
    client,            \* VectorStore.client is set (connect() has run)
    rpc,               \* position of the retrieve coroutine
    vtask,             \* state of the _vector_retrieval task
    dtask,             \* state of the _db_retrieval task
    session,           \* the database session of _db_retrieval
    vtask_result,      \* what the vector task returned
    dtask_result,      \* what the database task returned
    vector_results,    \* retrieve's local vector_results
    db_results,        \* retrieve's local db_results
    merged_results,    \* retrieve's local merged_results
    reranked_results,  \* retrieve's local reranked_results
    returned,          \* the list retrieve returned to its caller
    raised,            \* the exception retrieve raised to its caller
    calls,             \* which of _merge_results, _rerank ran in this call
    endpoint,          \* the request: "query" or "query_stream"
    spc,               \* position of the RAGService coroutine
    events,            \* the types of the events the stream has sent
    sources,           \* the formatted sources sent to the caller
    response,          \* the answer of POST /query
    gen_calls          \* how often the LLMGenerator was invoked

\* the variables of the call of retrieve
ret == <<query_intent, top_k, client, rpc, vtask, dtask, session,
         vtask_result, dtask_result, vector_results, db_results,
         merged_results, reranked_results, returned, raised, calls>>

\* the variables of the service around it
svc == <<endpoint, spc, events, sources, response, gen_calls>>

vars == <<query_intent, top_k, client, rpc, vtask, dtask, session,
          vtask_result, dtask_result, vector_results, db_results,
          merged_results, reranked_results, returned, raised, calls,
          endpoint, spc, events, sources, response, gen_calls>>

\* the most text fragments the language model streams for one answer
MaxChunks == 1

\* the largest top_k a caller passes
MaxTopK == 2

----------------------------------------------------------------------------
(* Values *)

None == << >>
Some(x) == <<x>>
Val(v) == v[1]

Abs(x) == IF x < 0 THEN -x ELSE x
Min(a, b) == IF a <= b THEN a ELSE b
Max(a, b) == IF a >= b THEN a ELSE b

\* a float, as an exact fraction with a positive denominator
Frac(n, d) == [n |-> n, d |-> d]
\* Python's a / b for b # 0
FDiv(a, b) == IF b > 0 THEN Frac(a, b) ELSE Frac(-a, -b)
FLeq(a, b) == a.n * b.d <= b.n * a.d
FLt(a, b) == a.n * b.d < b.n * a.d
FEq(a, b) == a.n * b.d = b.n * a.d
FZero == Frac(0, 1)
FOne == Frac(1, 1)
InUnit(a) == FLeq(FZero, a) /\ FLeq(a, FOne)

\* Python truth value of an optional number: None and 0 are false
Truthy(v) == v # None /\ Val(v) # 0

\* the weights set by HybridRetriever.__init__, in tenths
alpha == 6
beta == 3
gamma == 1

----------------------------------------------------------------------------
(* The two stores *)

GeoPoint(lat, lon) == [lat |-> lat, lon |-> lon]

\* The points of the Qdrant collection, as VectorStore.insert writes them:
\* a fresh point id per inserted document, payload.entry_id the id of the
\* knowledge entry, geo_point None when the document has no geo, and
\* start_time / end_time as given.  Entry e1 was inserted twice.
Points ==
    { [id |-> "p1", entry_id |-> "e1",
       geo_point |-> Some(GeoPoint(Some(40), Some(116))),
       start_time |-> Some(1), end_time |-> Some(3)],
      [id |-> "p2", entry_id |-> "e1",
       geo_point |-> None,
       start_time |-> Some(0), end_time |-> Some(2)],
      [id |-> "p3", entry_id |-> "e4",
       geo_point |-> Some(GeoPoint(Some(42), Some(116))),
       start_time |-> Some(2), end_time |-> None] }

\* The similarity scores the index may report, in tenths
ScoreNums == {-5, 8, 10}

\* The rows of KnowledgeEntry outer-joined with GeoLocation and
\* TemporalInfo: geom is the point of the GeoLocation row (None when there
\* is no row or its geom is NULL), start_time / end_time those of the
\* TemporalInfo row (None when there is none).  Entry e3 has two
\* TemporalInfo rows, so the join yields it twice; entry e5 has neither a
\* GeoLocation nor a TemporalInfo row.
Rows ==
    { [entry_id |-> "e1", geom |-> Some(GeoPoint(40, 116)),
       start_time |-> Some(1), end_time |-> Some(3)],
      [entry_id |-> "e2", geom |-> Some(GeoPoint(40, 117)),
       start_time |-> None, end_time |-> None],
      [entry_id |-> "e3", geom |-> None,
       start_time |-> Some(0), end_time |-> Some(2)],
      [entry_id |-> "e3", geom |-> None,
       start_time |-> Some(2), end_time |-> Some(4)],
      [entry_id |-> "e5", geom |-> None,
       start_time |-> None, end_time |-> None] }

\* The intents of the model: no geo filter, or a circle around (40, 116)
\* with a radius in km; no time filter, or a closed interval.  All satisfy
\* the invariants of the data model (radius_km > 0, start <= end).
GeoFilters ==
    { None,
      Some([lat |-> 40, lon |-> 116, radius_km |-> 111]),
      Some([lat |-> 40, lon |-> 116, radius_km |-> 150]) }

TimeFilters ==
    { None,
      Some([start |-> 1, end |-> 3]),
      Some([start |-> 2, end |-> 2]),
      Some([start |-> 5, end |-> 6]) }

Intents == [geo_filter : GeoFilters, time_filter : TimeFilters]

----------------------------------------------------------------------------
(* VectorStore.search *)

\* The filter VectorStore.search builds, applied to one point.  The
\* geo_radius condition needs a geo_point; which of the points that have
\* one lie inside the circle is decided by the index's great-circle
\* distance and is left open here (any of them may match).  The range
\* condition is on start_time only, inclusive at both ends.
SearchFilter(p, intent) ==
    /\ intent.geo_filter # None => p.geo_point # None
    /\ intent.time_filter # None =>
          /\ p.start_time # None
          /\ Val(intent.time_filter).start <= Val(p.start_time)
          /\ Val(p.start_time) <= Val(intent.time_filter).end

\* one formatted result of VectorStore.search
SearchHit(p, score) ==
    [id |-> p.id, score |-> Frac(score, 10),
     payload |-> [entry_id |-> p.entry_id, geo_point |-> p.geo_point,
                  start_time |-> p.start_time, end_time |-> p.end_time]]

\* Every list VectorStore.search may return: at most limit hits, each point
\* at most once, highest similarity first.
SearchResults(intent, limit) ==
    LET passing == {p \in Points : SearchFilter(p, intent)}
        hits == {SearchHit(p, sc) : p \in passing, sc \in ScoreNums}
    IN  UNION { { s \in [1..n -> hits] :
                    /\ \A i, j \in 1..n : i # j => s[i].id # s[j].id
                    /\ \A i \in 1..n : i < n => FLeq(s[i+1].score, s[i].score) }
                : n \in 0..Min(limit, Cardinality(passing)) }

----------------------------------------------------------------------------
(* HybridRetriever._db_retrieval *)

\* ST_DWithin of two points of a geometry column of SRID 4326: the distance
\* is measured on the plane, in degrees.  (The sum of the two legs bounds
\* the distance, and keeps the squares small.)
ST_DWithin(dlat, dlon, dist) ==
    \/ Abs(dlat) + Abs(dlon) <= dist
    \/ /\ dist >= 0
       /\ dlat * dlat + dlon * dlon <= dist * dist

\* DbWhere with a geo condition that lets a row without geom through
DbWhereKeepsNull(r, intent) ==
    /\ intent.geo_filter # None =>
          \/ r.geom = None
          \/ LET f == Val(intent.geo_filter)
             IN  ST_DWithin(Val(r.geom).lat - f.lat, Val(r.geom).lon - f.lon,
                            f.radius_km * 1000)
    /\ intent.time_filter # None =>
          /\ r.start_time # None
          /\ r.end_time # None
          /\ Val(r.start_time) <= Val(intent.time_filter).end
          /\ Val(r.end_time) >= Val(intent.time_filter).start

\* The WHERE clause of the query.  A NULL geom makes ST_DWithin NULL and
\* the row is dropped.  The time condition is interval overlap; a NULL
\* start_time or end_time drops the row.
DbWhere(r, intent) ==
    /\ intent.geo_filter # None =>
          /\ r.geom # None
          /\ LET f == Val(intent.geo_filter)
             IN  ST_DWithin(Val(r.geom).lat - f.lat, Val(r.geom).lon - f.lon,
                            f.radius_km * 1000)
    /\ intent.time_filter # None =>
          /\ r.start_time # None
          /\ r.end_time # None
          /\ Val(r.start_time) <= Val(intent.time_filter).end
          /\ Val(r.end_time) >= Val(intent.time_filter).start

\* one entry of formatted: score 0.0, and geo_point always a dict, whose
\* lat and lon are None when the row has no geom
DbFormat(r) ==
    [id |-> r.entry_id, score |-> Frac(0, 1),
     payload |-> [entry_id |-> r.entry_id,
                  geo_point |-> Some(IF r.geom # None
                                     THEN GeoPoint(Some(Val(r.geom).lat),
                                                   Some(Val(r.geom).lon))
                                     ELSE GeoPoint(None, None)),
                  start_time |-> r.start_time, end_time |-> r.end_time]]

\* Every list the query may produce: the rows that pass, cut by LIMIT, in
\* any order (there is no ORDER BY).
DbResults(intent, limit) ==
    LET passing == {r \in Rows : DbWhere(r, intent)}
        n == Min(limit, Cardinality(passing))
    IN  { [i \in 1..n |-> DbFormat(s[i])] :
            s \in { t \in [1..n -> passing] :
                      \A i, j \in 1..n : i # j => t[i] # t[j] } }

----------------------------------------------------------------------------
(* HybridRetriever._merge_results *)

\* position of key entry_id in the dict (a list in insertion order), or 0
RECURSIVE KeyIndex(_, _)
KeyIndex(merged, entry_id) ==
    IF merged = << >> THEN 0
    ELSE IF merged[Len(merged)].payload.entry_id = entry_id THEN Len(merged)
    ELSE KeyIndex(SubSeq(merged, 1, Len(merged) - 1), entry_id)

\* merged[entry_id] = res: a new key goes to the end, an existing key keeps
\* its place and takes the new value
DictSet(merged, res) ==
    LET i == KeyIndex(merged, res.payload.entry_id)
    IN  IF i = 0 THEN Append(merged, res)
        ELSE [merged EXCEPT ![i] = res]

\* the first loop: every vector result is stored under its entry_id
RECURSIVE MergeVector(_, _)
MergeVector(merged, vector_res) ==
    IF vector_res = << >> THEN merged
    ELSE MergeVector(DictSet(merged, Head(vector_res)), Tail(vector_res))

\* the second loop without its membership test: every result is added
MergeDbAppend(merged, db_res) == merged \o db_res

\* the second loop storing like the first: a database result replaces the
\* entry of its key
RECURSIVE MergeDbOverwrite(_, _)
MergeDbOverwrite(merged, db_res) ==
    IF db_res = << >> THEN merged
    ELSE MergeDbOverwrite(DictSet(merged, Head(db_res)), Tail(db_res))

\* the second loop: a database result is stored only under a new key
RECURSIVE MergeDb(_, _)
MergeDb(merged, db_res) ==
    IF db_res = << >> THEN merged
    ELSE MergeDb(IF KeyIndex(merged, Head(db_res).payload.entry_id) = 0
                 THEN Append(merged, Head(db_res))
                 ELSE merged,
                 Tail(db_res))

\* list(merged.values())
MergeResults(vector_res, db_res) ==
    MergeDb(MergeVector(<< >>, vector_res), db_res)

----------------------------------------------------------------------------
(* HybridRetriever._rerank *)

\* the semantic score without its default: the prior score as it is
semantic_score_raw(res) == res.score

\* res["score"] if res["score"] > 0 else 0.5
semantic_score(res) ==
    IF res.score.n > 0 THEN res.score ELSE Frac(1, 2)

\* the condition of the geo branch: a geo filter, and a geo_point that is
\* not None (a dict is true whatever its values)
GeoBranch(res, intent) ==
    intent.geo_filter # None /\ res.payload.geo_point # None

\* a distance that counts the latitude only
distance_km_lat_only(res, intent) ==
    LET f == Val(intent.geo_filter)
        g == Val(res.payload.geo_point)
    IN  Abs(f.lat - Val(g.lat)) * 111

\* abs(lat difference) * 111 + abs(lon difference) * 111
distance_km(res, intent) ==
    LET f == Val(intent.geo_filter)
        g == Val(res.payload.geo_point)
    IN  Abs(f.lat - Val(g.lat)) * 111 + Abs(f.lon - Val(g.lon)) * 111

\* the geo score without max(0.0, ...)
geo_score_unclamped(res, intent) ==
    IF ~GeoBranch(res, intent) THEN FOne
    ELSE LET max_distance == Val(intent.geo_filter).radius_km
         IN  FDiv(max_distance - distance_km(res, intent), max_distance)

\* max(0.0, 1.0 - distance_km / max_distance)
geo_score(res, intent) ==
    IF ~GeoBranch(res, intent) THEN FOne
    ELSE LET max_distance == Val(intent.geo_filter).radius_km
             v == FDiv(max_distance - distance_km(res, intent), max_distance)
         IN  IF v.n > 0 THEN v ELSE FZero

\* the condition of the time branch: a time filter, and start_time and
\* end_time both true (neither None nor 0)
TimeBranch(res, intent) ==
    /\ intent.time_filter # None
    /\ Truthy(res.payload.start_time)
    /\ Truthy(res.payload.end_time)

overlap_start(res, intent) ==
    Max(Val(intent.time_filter).start, Val(res.payload.start_time))

overlap_end(res, intent) ==
    Min(Val(intent.time_filter).end, Val(res.payload.end_time))

time_score(res, intent) ==
    IF ~TimeBranch(res, intent) THEN FOne
    ELSE IF overlap_end(res, intent) <= overlap_start(res, intent) THEN FZero
    ELSE FDiv(overlap_end(res, intent) - overlap_start(res, intent),
              Val(intent.time_filter).end - Val(intent.time_filter).start)

\* alpha * semantic_score + beta * geo_score + gamma * time_score
final_score(res, intent) ==
    LET s == semantic_score(res)
        g == geo_score(res, intent)
        t == time_score(res, intent)
    IN  Frac(alpha * s.n * g.d * t.d + beta * g.n * s.d * t.d
                + gamma * t.n * s.d * g.d,
             10 * s.d * g.d * t.d)

\* The exception the loop body raises for res, or "none": the subtraction
\* of a None coordinate is a TypeError, a zero radius or a zero query
\* duration in the division is a ZeroDivisionError.
ScoreError(res, intent) ==
    IF /\ GeoBranch(res, intent)
       /\ \/ Val(res.payload.geo_point).lat = None
          \/ Val(res.payload.geo_point).lon = None
    THEN "TypeError"
    ELSE IF GeoBranch(res, intent) /\ Val(intent.geo_filter).radius_km = 0
    THEN "ZeroDivisionError"
    ELSE IF /\ TimeBranch(res, intent)
            /\ overlap_end(res, intent) > overlap_start(res, intent)
            /\ Val(intent.time_filter).end = Val(intent.time_filter).start
    THEN "ZeroDivisionError"
    ELSE "none"

\* the exception _rerank raises: that of the first result that raises one
RECURSIVE RerankError(_, _)
RerankError(results, intent) ==
    IF results = << >> THEN "none"
    ELSE IF ScoreError(Head(results), intent) # "none"
         THEN ScoreError(Head(results), intent)
         ELSE RerankError(Tail(results), intent)

\* the loop: res["score"] = final_score, for every result
Rescore(results, intent) ==
    [i \in 1..Len(results) |->
        [results[i] EXCEPT !.score = final_score(results[i], intent)]]

\* an insertion that puts res ahead of its equals
RECURSIVE InsertDescAhead(_, _)
InsertDescAhead(sorted, res) ==
    IF sorted = << >> THEN <<res>>
    ELSE IF FLeq(Head(sorted).score, res.score) THEN <<res>> \o sorted
    ELSE <<Head(sorted)>> \o InsertDescAhead(Tail(sorted), res)

\* insert res into a list sorted by descending score, behind its equals
RECURSIVE InsertDesc(_, _)
InsertDesc(sorted, res) ==
    IF sorted = << >> THEN <<res>>
    ELSE IF FLt(Head(sorted).score, res.score) THEN <<res>> \o sorted
    ELSE <<Head(sorted)>> \o InsertDesc(Tail(sorted), res)

\* the list left in the order of the loop
Unsorted(results) == results

\* sorted(results, key=score, reverse=True): descending and stable
RECURSIVE SortedDesc(_)
SortedDesc(results) ==
    IF results = << >> THEN << >>
    ELSE InsertDesc(SortedDesc(SubSeq(results, 1, Len(results) - 1)),
                    results[Len(results)])

Rerank(results, intent) == SortedDesc(Rescore(results, intent))

\* a slice one entry too long
SliceOffByOne(results, k) ==
    SubSeq(results, 1, Min(k + 1, Len(results)))

\* reranked_results[:top_k]
Slice(results, k) ==
    IF k >= 0 THEN SubSeq(results, 1, Min(k, Len(results)))
    ELSE SubSeq(results, 1, Max(0, Len(results) + k))

----------------------------------------------------------------------------
(* One call of HybridRetriever.retrieve *)

Init ==
    /\ query_intent \in Intents
    /\ top_k \in 0..MaxTopK
    /\ client \in BOOLEAN
    /\ rpc = "start"
    /\ vtask = "new"
    /\ dtask = "new"
    /\ session = "none"
    /\ vtask_result = << >>
    /\ dtask_result = << >>
    /\ vector_results = << >>
    /\ db_results = << >>
    /\ merged_results = << >>
    /\ reranked_results = << >>
    /\ returned = << >>
    /\ raised = "none"
    /\ calls = {}
    /\ endpoint \in {"query", "query_stream"}
    /\ spc = "parse"
    /\ events = << >>
    /\ sources = << >>
    /\ response = "none"
    /\ gen_calls = 0

\* retrieve up to the await: the two coroutines are made with limit
\* top_k * 2 and asyncio.gather schedules one task for each
Retrieve ==
    /\ spc = "retrieve"
    /\ rpc = "start"
    /\ rpc' = "gather"
    /\ vtask' = "scheduled"
    /\ dtask' = "scheduled"
    /\ UNCHANGED svc
    /\ UNCHANGED <<query_intent, top_k, client, session, vtask_result,
                   dtask_result, vector_results, db_results, merged_results,
                   reranked_results, returned, raised, calls>>

\* _vector_retrieval up to its await: VectorStore.search raises at once
\* when the client is not connected, otherwise it awaits client.search
VectorStart ==
    /\ vtask = "scheduled"
    /\ vtask' = IF client THEN "running" ELSE "failed"
    /\ UNCHANGED svc
    /\ UNCHANGED <<query_intent, top_k, client, rpc, dtask, session,
                   vtask_result, dtask_result, vector_results, db_results,
                   merged_results, reranked_results, returned, raised, calls>>

\* client.search answers and VectorStore.search returns the formatted hits
VectorFinish ==
    /\ vtask = "running"
    /\ \E res \in SearchResults(query_intent, top_k * 2) :
          vtask_result' = res
    /\ vtask' = "done"
    /\ UNCHANGED svc
    /\ UNCHANGED <<query_intent, top_k, client, rpc, dtask, session,
                   dtask_result, vector_results, db_results, merged_results,
                   reranked_results, returned, raised, calls>>

\* client.search raises (index unreachable, query error)
VectorFail ==
    /\ vtask = "running"
    /\ vtask' = "failed"
    /\ UNCHANGED svc
    /\ UNCHANGED <<query_intent, top_k, client, rpc, dtask, session,
                   vtask_result, dtask_result, vector_results, db_results,
                   merged_results, reranked_results, returned, raised, calls>>

\* _db_retrieval up to its await of db.execute: the session is acquired.
\* The event loop runs the first step of the two tasks in the order gather
\* scheduled them.
DbStart ==
    /\ dtask = "scheduled"
    /\ vtask # "scheduled"
    /\ session' = "open"
    /\ dtask' = "running"
    /\ UNCHANGED svc
    /\ UNCHANGED <<query_intent, top_k, client, rpc, vtask, vtask_result,
                   dtask_result, vector_results, db_results, merged_results,
                   reranked_results, returned, raised, calls>>

\* db.execute answers: the rows are formatted, and the finally clause
\* awaits db.close()
DbFinish ==
    /\ dtask = "running"
    /\ dtask' = "returning"
    /\ UNCHANGED svc
    /\ UNCHANGED <<query_intent, top_k, client, rpc, vtask, session,
                   vtask_result, dtask_result, vector_results, db_results,
                   merged_results, reranked_results, returned, raised, calls>>

\* db.execute raises: the finally clause awaits db.close()
DbFail ==
    /\ dtask = "running"
    /\ dtask' = "raising"
    /\ UNCHANGED svc
    /\ UNCHANGED <<query_intent, top_k, client, rpc, vtask, session,
                   vtask_result, dtask_result, vector_results, db_results,
                   merged_results, reranked_results, returned, raised, calls>>

\* how _db_retrieval ends once db.close() has returned: with its list, with
\* the exception of db.execute, or with the CancelledError
AfterClose(task) ==
    IF task = "returning" THEN "done"
    ELSE IF task = "raising" THEN "failed"
    ELSE "cancelled"

\* db.close() returns: the session is released and the task ends; a task
\* that ends normally hands over the formatted list
DbClosed ==
    /\ dtask \in {"returning", "raising", "unwinding"}
    /\ session' = "closed"
    /\ dtask' = AfterClose(dtask)
    /\ IF dtask = "returning"
       THEN \E res \in DbResults(query_intent, top_k * 2) :
               dtask_result' = res
       ELSE UNCHANGED dtask_result
    /\ UNCHANGED svc
    /\ UNCHANGED <<query_intent, top_k, client, rpc, vtask, vtask_result,
                   vector_results, db_results, merged_results,
                   reranked_results, returned, raised, calls>>

\* a gather that takes a failed task for a finished one
GatherSettled ==
    vtask \in {"done", "failed"} /\ dtask \in {"done", "failed"}

\* a gather that returns with the first task that finishes
GatherFirst == vtask = "done" \/ dtask = "done"

\* asyncio.gather without return_exceptions: its future has a result when
\* every task has one
GatherDone == vtask = "done" /\ dtask = "done"

\* ... and it has the exception of the first task that raises, as soon as
\* that task raises; the other task is neither awaited nor cancelled
GatherFailed == vtask = "failed" \/ dtask = "failed"

\* the await raises in retrieve: the exception goes to the caller.  The
\* first step of both tasks is ahead of this wake-up in the event loop.
GatherRaise ==
    /\ rpc = "gather"
    /\ GatherFailed
    /\ vtask # "scheduled"
    /\ dtask # "scheduled"
    /\ rpc' = "failed"
    /\ raised' = "RetrievalError"
    /\ UNCHANGED svc
    /\ UNCHANGED <<query_intent, top_k, client, vtask, dtask, session,
                   vtask_result, dtask_result, vector_results, db_results,
                   merged_results, reranked_results, returned, calls>>

\* retrieve without the test for an empty merge
AfterMergeAlways(merged) == "rerank"

\* if not merged_results: return []
AfterMerge(merged) == IF merged = << >> THEN "returned" ELSE "rerank"

\* the await returns both lists; _merge_results; return [] when the merge
\* is empty
Merge ==
    /\ rpc = "gather"
    /\ GatherDone
    /\ vector_results' = vtask_result
    /\ db_results' = dtask_result
    /\ merged_results' = MergeResults(vtask_result, dtask_result)
    /\ calls' = calls \cup {"merge"}
    /\ rpc' = AfterMerge(merged_results')
    /\ UNCHANGED svc
    /\ UNCHANGED <<query_intent, top_k, client, vtask, dtask, session,
                   vtask_result, dtask_result, reranked_results, returned,
                   raised>>

\* _rerank: every result is rescored and the list sorted, unless the loop
\* raises, and then retrieve raises
RerankStep ==
    /\ rpc = "rerank"
    /\ calls' = calls \cup {"rerank"}
    /\ IF RerankError(merged_results, query_intent) = "none"
       THEN /\ reranked_results' = Rerank(merged_results, query_intent)
            /\ rpc' = "slice"
            /\ UNCHANGED raised
       ELSE /\ raised' = RerankError(merged_results, query_intent)
            /\ rpc' = "failed"
            /\ UNCHANGED reranked_results
    /\ UNCHANGED svc
    /\ UNCHANGED <<query_intent, top_k, client, vtask, dtask, session,
                   vtask_result, dtask_result, vector_results, db_results,
                   merged_results, returned>>

\* return reranked_results[:top_k]
Return ==
    /\ rpc = "slice"
    /\ returned' = Slice(reranked_results, top_k)
    /\ rpc' = "returned"
    /\ UNCHANGED svc
    /\ UNCHANGED <<query_intent, top_k, client, vtask, dtask, session,
                   vtask_result, dtask_result, vector_results, db_results,
                   merged_results, reranked_results, raised, calls>>

----------------------------------------------------------------------------
(* Cancellation of the call of retrieve *)

\* the states of a task that awaits its client
InFlight == {"scheduled", "running"}

\* the states of _db_retrieval in its finally clause, awaiting db.close()
Closing == {"returning", "raising", "unwinding"}

\* the states of a task that has not ended
Unfinished == InFlight \cup Closing \cup {"cancelling", "close_cancelling"}

\* Task.cancel() of a sub-retrieval: the future it awaits is cancelled,
\* unless the task has ended or is already being cancelled
CancelTask(task) ==
    IF task \in InFlight THEN "cancelling"
    ELSE IF task \in {"returning", "raising"} THEN "close_cancelling"
    ELSE task

\* The caller cancels the request while retrieve awaits gather.  The
\* cancellation goes to gather's future, which cancels every task that has
\* not ended; a future that already has its result or its exception
\* cancels nothing, and retrieve gets the CancelledError at its wake-up.
Cancel ==
    /\ spc = "retrieve"
    /\ rpc = "gather"
    /\ rpc' = "cancelling"
    /\ IF GatherDone \/ GatherFailed
       THEN UNCHANGED <<vtask, dtask>>
       ELSE /\ vtask' = CancelTask(vtask)
            /\ dtask' = CancelTask(dtask)
    /\ UNCHANGED svc
    /\ UNCHANGED <<query_intent, top_k, client, session, vtask_result,
                   dtask_result, vector_results, db_results, merged_results,
                   reranked_results, returned, raised, calls>>

\* CancelledError is raised in _vector_retrieval at its await
VectorCancelled ==
    /\ vtask = "cancelling"
    /\ vtask' = "cancelled"
    /\ UNCHANGED svc
    /\ UNCHANGED <<query_intent, top_k, client, rpc, dtask, session,
                   vtask_result, dtask_result, vector_results, db_results,
                   merged_results, reranked_results, returned, raised, calls>>

\* CancelledError is raised in _db_retrieval: before its first step, where
\* there is no session and the task ends, or at its await of db.execute,
\* where the finally clause awaits db.close().  The event loop wakes the
\* two cancelled tasks in the order gather cancelled them.
DbCancelled ==
    /\ dtask = "cancelling"
    /\ vtask # "cancelling"
    /\ dtask' = IF session = "open" THEN "unwinding" ELSE "cancelled"
    /\ UNCHANGED svc
    /\ UNCHANGED <<query_intent, top_k, client, rpc, vtask, session,
                   vtask_result, dtask_result, vector_results, db_results,
                   merged_results, reranked_results, returned, raised, calls>>

\* CancelledError is raised in _db_retrieval at its await of db.close():
\* the task ends with the close interrupted, and the connection pool drops
\* the connection
DbCloseCancelled ==
    /\ dtask = "close_cancelling"
    /\ vtask # "cancelling"
    /\ dtask' = "cancelled"
    /\ session' = "closed"
    /\ UNCHANGED svc
    /\ UNCHANGED <<query_intent, top_k, client, rpc, vtask, vtask_result,
                   dtask_result, vector_results, db_results, merged_results,
                   reranked_results, returned, raised, calls>>

\* gather's future has the CancelledError: as soon as one cancelled task
\* has ended (gather is called without return_exceptions), or, when no
\* task was cancelled, already at the cancellation
GatherCancelled ==
    \/ GatherDone
    \/ GatherFailed
    \/ vtask = "cancelled"
    \/ dtask = "cancelled"

\* CancelledError is raised in retrieve and goes to the caller.  The first
\* step of each task, and the step that raises CancelledError in it, are
\* ahead of this wake-up in the event loop.
RetrieveCancelled ==
    /\ rpc = "cancelling"
    /\ GatherCancelled
    /\ vtask \notin {"scheduled", "cancelling"}
    /\ dtask \notin {"scheduled", "cancelling", "close_cancelling"}
    /\ rpc' = "cancelled"
    /\ raised' = "CancelledError"
    /\ UNCHANGED svc
    /\ UNCHANGED <<query_intent, top_k, client, vtask, dtask, session,
                   vtask_result, dtask_result, vector_results, db_results,
                   merged_results, reranked_results, returned, calls>>

----------------------------------------------------------------------------
(* RAGService.query, RAGService.query_stream and their routes *)

\* payload.get("geo_point", {}).get("address", ...): the payload of a
\* vector hit without geo has the key with the value None, and None has no
\* get.  (RAGService._format_sources and LLMGenerator._build_context)
AddressError(contexts) ==
    IF \E i \in 1..Len(contexts) : contexts[i].payload.geo_point = None
    THEN "AttributeError"
    ELSE "none"

\* the ids of the Source objects _format_sources makes
FormatSources(contexts) ==
    [i \in 1..Len(contexts) |-> contexts[i].payload.entry_id]

\* a service that takes no list for an empty one
NeverEmpty(contexts) == FALSE

\* if not contexts
NoContexts(contexts) == contexts = << >>

\* An exception leaves the service: the route of query answers 500, the
\* stream_generator of query_stream sends an error event and ends.
Failure ==
    /\ spc' = "done"
    /\ IF endpoint = "query"
       THEN response' = "500" /\ UNCHANGED events
       ELSE events' = Append(events, "error") /\ UNCHANGED response

\* query_understanding.parse returns the intent
ParseOk ==
    /\ spc = "parse"
    /\ spc' = "retrieve"
    /\ UNCHANGED <<endpoint, events, sources, response, gen_calls>>
    /\ UNCHANGED ret

\* query_understanding.parse raises
ParseFail ==
    /\ spc = "parse"
    /\ Failure
    /\ UNCHANGED <<endpoint, sources, gen_calls>>
    /\ UNCHANGED ret

\* retrieve raises in the service
RetrieveRaised ==
    /\ spc = "retrieve"
    /\ rpc = "failed"
    /\ Failure
    /\ UNCHANGED <<endpoint, sources, gen_calls>>
    /\ UNCHANGED ret

\* the cancellation leaves the service: CancelledError is no Exception, so
\* neither route catches it and nothing is sent
RequestCancelled ==
    /\ spc = "retrieve"
    /\ rpc = "cancelled"
    /\ spc' = "cancelled"
    /\ UNCHANGED <<endpoint, events, sources, response, gen_calls>>
    /\ UNCHANGED ret

\* query after retrieve: the fixed answer without sources when there are no
\* contexts, otherwise generator.generate, which builds its context string
\* and awaits the language model
QueryContexts ==
    /\ endpoint = "query"
    /\ spc = "retrieve"
    /\ rpc = "returned"
    /\ IF NoContexts(returned)
       THEN /\ response' = "no_answer"
            /\ sources' = << >>
            /\ spc' = "done"
            /\ UNCHANGED gen_calls
       ELSE /\ gen_calls' = gen_calls + 1
            /\ UNCHANGED sources
            /\ IF AddressError(returned) # "none"
               THEN response' = "500" /\ spc' = "done"
               ELSE spc' = "generate" /\ UNCHANGED response
    /\ UNCHANGED <<endpoint, events>>
    /\ UNCHANGED ret

\* generate returns the answer: the sources are formatted and the response
\* is made
GenerateOk ==
    /\ spc = "generate"
    /\ spc' = "done"
    /\ IF AddressError(returned) # "none"
       THEN response' = "500" /\ UNCHANGED sources
       ELSE response' = "answer" /\ sources' = FormatSources(returned)
    /\ UNCHANGED <<endpoint, events, gen_calls>>
    /\ UNCHANGED ret

\* generate raises
GenerateFail ==
    /\ spc = "generate"
    /\ Failure
    /\ UNCHANGED <<endpoint, sources, gen_calls>>
    /\ UNCHANGED ret

\* query_stream after retrieve: the sources are formatted and sent
StreamSources ==
    /\ endpoint = "query_stream"
    /\ spc = "retrieve"
    /\ rpc = "returned"
    /\ IF AddressError(returned) # "none"
       THEN Failure /\ UNCHANGED sources
       ELSE /\ events' = Append(events, "sources")
            /\ sources' = FormatSources(returned)
            /\ spc' = "sources_sent"
            /\ UNCHANGED response
    /\ UNCHANGED <<endpoint, gen_calls>>
    /\ UNCHANGED ret

\* query_stream after the sources: the fixed text when there are no
\* contexts, otherwise generator.generate_stream, which builds its context
\* string and opens the stream of the language model
StreamAfterSources ==
    /\ spc = "sources_sent"
    /\ IF NoContexts(returned)
       THEN /\ events' = Append(events, "content")
            /\ spc' = "no_answer_sent"
            /\ UNCHANGED <<response, gen_calls>>
       ELSE /\ gen_calls' = gen_calls + 1
            /\ IF AddressError(returned) # "none"
               THEN Failure
               ELSE spc' = "streaming" /\ UNCHANGED <<events, response>>
    /\ UNCHANGED <<endpoint, sources>>
    /\ UNCHANGED ret

\* the done event after the fixed text
StreamNoAnswerDone ==
    /\ spc = "no_answer_sent"
    /\ events' = Append(events, "done")
    /\ spc' = "done"
    /\ UNCHANGED <<endpoint, sources, response, gen_calls>>
    /\ UNCHANGED ret

\* the language model sends a text fragment
StreamChunk ==
    /\ spc = "streaming"
    /\ Len(events) < 1 + MaxChunks
    /\ events' = Append(events, "content")
    /\ UNCHANGED <<endpoint, spc, sources, response, gen_calls>>
    /\ UNCHANGED ret

\* the stream of the language model ends: the done event
StreamDone ==
    /\ spc = "streaming"
    /\ events' = Append(events, "done")
    /\ spc' = "done"
    /\ UNCHANGED <<endpoint, sources, response, gen_calls>>
    /\ UNCHANGED ret

\* the stream of the language model raises
StreamGenFail ==
    /\ spc = "streaming"
    /\ Failure
    /\ UNCHANGED <<endpoint, sources, gen_calls>>
    /\ UNCHANGED ret

Next ==
    \/ Retrieve
    \/ VectorStart
    \/ VectorFinish
    \/ VectorFail
    \/ DbStart
    \/ DbFinish
    \/ DbFail
    \/ DbClosed
    \/ GatherRaise
    \/ Merge
    \/ RerankStep
    \/ Return
    \/ Cancel
    \/ VectorCancelled
    \/ DbCancelled
    \/ DbCloseCancelled
    \/ RetrieveCancelled
    \/ ParseOk
    \/ ParseFail
    \/ RetrieveRaised
    \/ RequestCancelled
    \/ QueryContexts
    \/ GenerateOk
    \/ GenerateFail
    \/ StreamSources
    \/ StreamAfterSources
    \/ StreamNoAnswerDone
    \/ StreamChunk
    \/ StreamDone
    \/ StreamGenFail

Spec == Init /\ [][Next]_vars

TypeOK ==
    /\ query_intent \in Intents
    /\ top_k \in 0..MaxTopK
    /\ rpc \in {"start", "gather", "rerank", "slice", "returned", "failed",
                "cancelling", "cancelled"}
    /\ vtask \in {"new", "scheduled", "running", "done", "failed",
                  "cancelling", "cancelled"}
    /\ dtask \in {"new", "scheduled", "running", "returning", "raising",
                  "done", "failed", "cancelling", "close_cancelling",
                  "unwinding", "cancelled"}
    /\ session \in {"none", "open", "closed"}
    /\ endpoint \in {"query", "query_stream"}
    /\ spc \in {"parse", "retrieve", "generate", "sources_sent",
                "no_answer_sent", "streaming", "done", "cancelled"}
    /\ response \in {"none", "answer", "no_answer", "500"}
    /\ gen_calls \in 0..1
    /\ \A i \in 1..Len(events) :
          events[i] \in {"sources", "content", "done", "error"}

----------------------------------------------------------------------------
(* Properties *)

Range(seq) == {seq[i] : i \in 1..Len(seq)}

\* a candidate without its score, which _rerank rewrites
Ident(res) == <<res.id, res.payload>>

EntryIds(seq) == {seq[i].payload.entry_id : i \in 1..Len(seq)}

Count(seq, ident) == Cardinality({i \in 1..Len(seq) : Ident(seq[i]) = ident})

\* the last vector result stored under entry_id
LastVector(entry_id) ==
    vector_results[CHOOSE i \in 1..Len(vector_results) :
        /\ vector_results[i].payload.entry_id = entry_id
        /\ \A j \in (i + 1)..Len(vector_results) :
              vector_results[j].payload.entry_id # entry_id]

\* C1: retrieve returns at most top_k candidates, for every top_k >= 0: the
\* first top_k entries of the reranked list, all of it when it has fewer,
\* and every returned candidate is one of a sub-retrieval's results.
C1_AtMostTopK ==
    rpc = "returned" =>
        /\ Len(returned) <= top_k
        /\ Len(returned) = Min(top_k, Len(reranked_results))
        /\ returned = SubSeq(reranked_results, 1, Len(returned))
        /\ Len(reranked_results) < top_k => returned = reranked_results
        /\ \A i \in 1..Len(returned) :
              \E c \in Range(vtask_result) \cup Range(dtask_result) :
                  Ident(c) = Ident(returned[i])

\* retrieve has returned a list that it cut to top_k entries
C1_Witness ==
    /\ rpc = "returned"
    /\ top_k >= 1
    /\ Len(reranked_results) > top_k
    /\ Len(returned) = top_k

\* C2: when the vector or the database retrieval fails, retrieve does not
\* return a list and runs neither _merge_results nor _rerank: it is waiting
\* or has raised.  A search on an unconnected store fails, it does not
\* return a list.
C2_FailureIsFatal ==
    /\ ~client => vtask # "done"
    /\ (vtask = "failed" \/ dtask = "failed") =>
          /\ rpc \in {"gather", "failed", "cancelling", "cancelled"}
          /\ calls = {}
          /\ merged_results = << >>
          /\ returned = << >>
    /\ rpc = "returned" => vtask = "done" /\ dtask = "done"

\* the vector retrieval failed, the database retrieval returned candidates,
\* and retrieve raised
C2_Witness ==
    /\ vtask = "failed"
    /\ dtask = "done"
    /\ dtask_result # << >>
    /\ rpc = "failed"
    /\ raised = "RetrievalError"

\* C3: when both sub-retrievals succeed with no candidates, retrieve
\* returns the empty list, raises nothing and does not call _rerank.
C3_EmptyIsNotAnError ==
    ("merge" \in calls /\ vector_results = << >> /\ db_results = << >>) =>
        /\ rpc = "returned"
        /\ returned = << >>
        /\ raised = "none"
        /\ "rerank" \notin calls

\* both stores were asked for candidates (top_k > 0), neither had a match,
\* and retrieve returned
C3_Witness ==
    /\ top_k > 0
    /\ "merge" \in calls
    /\ vtask = "done" /\ vtask_result = << >>
    /\ dtask = "done" /\ dtask_result = << >>
    /\ rpc = "returned"

\* C4: the output of _merge_results has at most len(vector_results) +
\* len(db_results) entries, no two with the same payload.entry_id, and
\* every entry_id of either input appears in it exactly once.
C4_MergeUnique ==
    "merge" \in calls =>
        /\ Len(merged_results) <= Len(vector_results) + Len(db_results)
        /\ \A i, j \in 1..Len(merged_results) :
              i # j => merged_results[i].payload.entry_id
                          # merged_results[j].payload.entry_id
        /\ EntryIds(merged_results)
              = EntryIds(vector_results) \cup EntryIds(db_results)

\* a merge of a vector list that repeats an entry_id with a database list
\* that repeats one
C4_Witness ==
    /\ "merge" \in calls
    /\ \E i, j \in 1..Len(vector_results) :
          i # j /\ vector_results[i].payload.entry_id
                      = vector_results[j].payload.entry_id
    /\ \E i, j \in 1..Len(db_results) :
          i # j /\ db_results[i].payload.entry_id
                      = db_results[j].payload.entry_id

\* C5: for every entry_id in both inputs of _merge_results, the merged
\* entry is a vector result (the last one stored under that entry_id) with
\* that result's score; no database result replaces it.
C5_VectorPrecedence ==
    "merge" \in calls =>
        \A e \in EntryIds(vector_results) \cap EntryIds(db_results) :
            \A i \in 1..Len(merged_results) :
                merged_results[i].payload.entry_id = e =>
                    /\ merged_results[i] = LastVector(e)
                    /\ merged_results[i] \in Range(vector_results)
                    /\ merged_results[i].score = LastVector(e).score

\* an entry_id in both inputs whose vector result has a score other than
\* the 0.0 of the database result
C5_Witness ==
    /\ "merge" \in calls
    /\ \E e \in EntryIds(vector_results) \cap EntryIds(db_results) :
          LastVector(e).score.n > 0

SortedByScore(seq) ==
    \A i \in 1..Len(seq) : i < Len(seq) => FLeq(seq[i + 1].score, seq[i].score)

\* C6: the list _rerank returns, and so the list retrieve returns, is
\* sorted by non-increasing score, the score being the final score _rerank
\* wrote; it holds the candidates it was given, each once.
C6_SortedDescending ==
    ("rerank" \in calls /\ raised = "none") =>
        /\ SortedByScore(reranked_results)
        /\ Len(reranked_results) = Len(merged_results)
        /\ \A i \in 1..Len(merged_results) :
              /\ Count(reranked_results, Ident(merged_results[i]))
                    = Count(merged_results, Ident(merged_results[i]))
              /\ \E j \in 1..Len(reranked_results) :
                    /\ Ident(reranked_results[j]) = Ident(merged_results[i])
                    /\ reranked_results[j].score
                          = final_score(merged_results[i], query_intent)
        /\ rpc = "returned" => SortedByScore(returned)

\* _rerank moved a candidate with a higher final score ahead of one that
\* was merged before it
C6_Witness ==
    /\ "rerank" \in calls
    /\ rpc = "returned"
    /\ Len(returned) >= 2
    /\ FLt(returned[2].score, returned[1].score)
    /\ Ident(returned[1]) # Ident(merged_results[1])

\* C7: for a native score of at most 1, a radius above 0 and a time filter
\* with start <= end, the three sub-scores _rerank combines and the final
\* score it writes are all in [0, 1].
C7_ScoresInUnitInterval ==
    ("rerank" \in calls /\ raised = "none") =>
        /\ \A i \in 1..Len(merged_results) :
              /\ InUnit(semantic_score(merged_results[i]))
              /\ InUnit(geo_score(merged_results[i], query_intent))
              /\ InUnit(time_score(merged_results[i], query_intent))
        /\ \A i \in 1..Len(reranked_results) :
              InUnit(reranked_results[i].score)

\* _rerank scored a candidate that lies beyond the radius, one with a
\* native score of 0 or less and one whose interval covers part of the
\* filter's
C7_Witness ==
    /\ "rerank" \in calls
    /\ raised = "none"
    /\ \E i \in 1..Len(merged_results) :
          /\ GeoBranch(merged_results[i], query_intent)
          /\ distance_km(merged_results[i], query_intent)
                > Val(query_intent.geo_filter).radius_km
    /\ \E i \in 1..Len(merged_results) : merged_results[i].score.n < 0
    /\ \E i \in 1..Len(merged_results) :
          /\ TimeBranch(merged_results[i], query_intent)
          /\ FLt(FZero, time_score(merged_results[i], query_intent))

\* For C8: gather starts both sub-retrievals together, before retrieve waits
\* for either; _merge_results runs only when both have finished, _rerank
\* only after _merge_results, and while retrieve merges, reranks and
\* returns no sub-retrieval takes a step.
C8_State ==
    /\ (vtask = "new") = (dtask = "new")
    /\ rpc = "start" => vtask = "new" /\ dtask = "new"
    /\ rpc # "start" => vtask # "new" /\ dtask # "new"
    /\ (calls # {} \/ rpc \in {"rerank", "slice", "returned"}) =>
          vtask = "done" /\ dtask = "done"
    /\ "rerank" \in calls => "merge" \in calls

C8_Step ==
    (\/ calls' # calls
     \/ merged_results' # merged_results
     \/ reranked_results' # reranked_results
     \/ returned' # returned) =>
        /\ vtask = "done" /\ dtask = "done"
        /\ vtask' = vtask /\ dtask' = dtask
        /\ "rerank" \in calls' => "merge" \in calls

\* C8, as one property: the state condition always holds and every step
\* of merge, rerank and return is taken with both sub-retrievals finished
C8_JoinBeforeMerge == [](C8_State) /\ [][C8_Step]_vars

\* both sub-retrievals are in flight at once: the database query was sent
\* while the vector search was still unanswered
C8_Witness ==
    /\ rpc = "gather"
    /\ vtask = "running"
    /\ dtask = "running"
    /\ session = "open"

\* C9: when retrieve's failure reaches the caller, no sub-retrieval of the
\* call is still running (join-then-fail).
C9_JoinThenFail ==
    rpc = "failed" =>
        /\ vtask \notin {"scheduled", "running"}
        /\ dtask \notin {"scheduled", "running"}

ScoreAfter(c) ==
    (CHOOSE r \in Range(reranked_results) : Ident(r) = Ident(c)).score

\* 0.6 * s + 0.3 * g + 0.1 * t, as a fraction
Weighted(s, g, t) ==
    Frac(6 * s.n * g.d * t.d + 3 * g.n * s.d * t.d + 1 * t.n * s.d * g.d,
         10 * s.d * g.d * t.d)

\* the candidate has no geo and no time data
NoGeoTimeData(c) ==
    /\ \/ c.payload.geo_point = None
       \/ /\ Val(c.payload.geo_point).lat = None
          /\ Val(c.payload.geo_point).lon = None
    /\ c.payload.start_time = None
    /\ c.payload.end_time = None

\* C11: _rerank overwrites the score of every candidate with
\* 0.6*s + 0.3*g + 0.1*t, where s is the prior score when that is above 0
\* and 0.5 otherwise, g the geo and t the time sub-score.  A candidate at
\* the centre of the geo filter with prior score 0.8 and no time filter gets
\* 0.88; a candidate with prior score 0 and no geo or time data under a
\* query without filters gets 0.70.
C11_WeightedSum ==
    ("rerank" \in calls /\ raised = "none") =>
        \A i \in 1..Len(merged_results) :
            LET c == merged_results[i]
                s == IF c.score.n > 0 THEN c.score ELSE Frac(5, 10)
                g == geo_score(c, query_intent)
                t == time_score(c, query_intent)
            IN  /\ FEq(ScoreAfter(c), Weighted(s, g, t))
                /\ (/\ GeoBranch(c, query_intent)
                    /\ distance_km(c, query_intent) = 0
                    /\ query_intent.time_filter = None
                    /\ FEq(c.score, Frac(8, 10)))
                      => FEq(ScoreAfter(c), Frac(88, 100))
                /\ (/\ query_intent.geo_filter = None
                    /\ query_intent.time_filter = None
                    /\ c.score.n = 0
                    /\ NoGeoTimeData(c))
                      => FEq(ScoreAfter(c), Frac(70, 100))

\* _rerank scored, under a geo filter and no time filter, a candidate at
\* the centre with prior score 0.8 and a database candidate with score 0
C11_Witness ==
    /\ "rerank" \in calls
    /\ raised = "none"
    /\ query_intent.time_filter = None
    /\ \E i \in 1..Len(merged_results) :
          /\ GeoBranch(merged_results[i], query_intent)
          /\ distance_km(merged_results[i], query_intent) = 0
          /\ FEq(merged_results[i].score, Frac(8, 10))
          /\ FEq(ScoreAfter(merged_results[i]), Frac(88, 100))
    /\ \E i \in 1..Len(merged_results) :
          /\ merged_results[i].score.n = 0
          /\ FLt(ScoreAfter(merged_results[i]), Frac(70, 100))

\* the candidates of _rerank that take the geo branch
GeoScored == {c \in Range(merged_results) : GeoBranch(c, query_intent)}

\* 111*|dlat| + 111*|dlon| between the candidate and the filter's centre
ManhattanKm(c) ==
    111 * Abs(Val(Val(c.payload.geo_point).lat) - Val(query_intent.geo_filter).lat)
    + 111 * Abs(Val(Val(c.payload.geo_point).lon) - Val(query_intent.geo_filter).lon)

\* C12: under a geo filter with radius_km > 0, the geo sub-score of a
\* candidate with a geo point is 1.0 at distance 0, is 0.0 at every
\* distance >= radius_km, never negative, and no larger for a candidate
\* farther away.
C12_GeoSubScore ==
    (/\ "rerank" \in calls
     /\ raised = "none"
     /\ query_intent.geo_filter # None
     /\ Val(query_intent.geo_filter).radius_km > 0) =>
        /\ \A c \in GeoScored :
              /\ ManhattanKm(c) = 0 => FEq(geo_score(c, query_intent), FOne)
              /\ ManhattanKm(c) >= Val(query_intent.geo_filter).radius_km
                    => FEq(geo_score(c, query_intent), FZero)
              /\ FLeq(FZero, geo_score(c, query_intent))
        /\ \A c1, c2 \in GeoScored :
              ManhattanKm(c1) <= ManhattanKm(c2)
                 => FLeq(geo_score(c2, query_intent),
                         geo_score(c1, query_intent))

\* _rerank scored a candidate at the centre, one inside the radius and one
\* beyond it, with three different geo sub-scores
C12_Witness ==
    /\ "rerank" \in calls
    /\ raised = "none"
    /\ query_intent.geo_filter # None
    /\ \E c1, c2, c3 \in GeoScored :
          /\ ManhattanKm(c1) = 0
          /\ 0 < ManhattanKm(c2)
          /\ ManhattanKm(c2) < Val(query_intent.geo_filter).radius_km
          /\ ManhattanKm(c3) > Val(query_intent.geo_filter).radius_km
          /\ FLt(geo_score(c2, query_intent), geo_score(c1, query_intent))
          /\ FLt(geo_score(c3, query_intent), geo_score(c2, query_intent))

\* the candidate has a start and an end time
HasTimes(c) == c.payload.start_time # None /\ c.payload.end_time # None

\* the candidate's interval contains the filter's
Contains(c, f) ==
    /\ Val(c.payload.start_time) <= f.start
    /\ Val(c.payload.end_time) >= f.end

\* C13: for every time filter with start <= end, start = end included, a
\* candidate with a start and an end time whose interval contains the
\* filter's has the time sub-score 1.0.
C13_ContainingIsOne ==
    (/\ "rerank" \in calls
     /\ raised = "none"
     /\ query_intent.time_filter # None
     /\ Val(query_intent.time_filter).start
           <= Val(query_intent.time_filter).end) =>
        \A c \in Range(merged_results) :
            (HasTimes(c) /\ Contains(c, Val(query_intent.time_filter)))
               => FEq(time_score(c, query_intent), FOne)

\* the candidate's interval and the filter's have no instant in common
Disjoint(c, f) ==
    \/ Val(c.payload.end_time) < f.start
    \/ Val(c.payload.start_time) > f.end

\* C14: under a time filter, a candidate with a start and an end time, 0
\* and negative instants included, has the time sub-score 0.0 when its
\* interval is disjoint from the filter's, and it has 1.0 only for an
\* interval that contains the filter's: the neutral 1.0 is for a query
\* without time filter or a candidate without its times.
C14_NeutralOnlyWithoutTimes ==
    (/\ "rerank" \in calls
     /\ raised = "none"
     /\ query_intent.time_filter # None) =>
        \A c \in Range(merged_results) :
            HasTimes(c) =>
               /\ Disjoint(c, Val(query_intent.time_filter))
                     => FEq(time_score(c, query_intent), FZero)
               /\ FEq(time_score(c, query_intent), FOne)
                     => Contains(c, Val(query_intent.time_filter))

\* one sources event, then content events, then one done or error event
StreamForm(evs) ==
    /\ Len(evs) >= 2
    /\ evs[1] = "sources"
    /\ evs[Len(evs)] \in {"done", "error"}
    /\ \A i \in 2..(Len(evs) - 1) : evs[i] = "content"

\* a beginning of such a sequence that has no terminal event yet
StreamPrefix(evs) ==
    \/ evs = << >>
    \/ /\ evs[1] = "sources"
       /\ \A i \in 2..Len(evs) : evs[i] = "content"

\* C15: the events of one streaming query are one sources event, then
\* content events, then one done or error event and nothing after it; the
\* sources event is sent only after retrieve has returned.  When the parse
\* or retrieve fails, the stream is a single error event.
C15_StreamForm ==
    endpoint = "query_stream" =>
        /\ "sources" \in Range(events) => rpc = "returned"
        /\ spc # "done" => StreamPrefix(events)
        /\ spc = "done" =>
              IF rpc = "returned" THEN StreamForm(events)
              ELSE events = <<"error">>

\* C16: in query and in query_stream the generator is invoked only after
\* retrieve has returned a list that is not empty.  When retrieve raises,
\* the generator is not invoked and the caller gets a failure (500, or an
\* error event); when retrieve returns the empty list, the generator is not
\* invoked and the caller gets the fixed answer with no sources.
C16_GenerateOnlyWithContexts ==
    /\ gen_calls > 0 => rpc = "returned" /\ returned # << >>
    /\ (rpc = "failed" /\ spc = "done") =>
          /\ gen_calls = 0
          /\ sources = << >>
          /\ IF endpoint = "query" THEN response = "500"
             ELSE events = <<"error">>
    /\ (rpc = "returned" /\ returned = << >> /\ spc = "done") =>
          /\ gen_calls = 0
          /\ sources = << >>
          /\ IF endpoint = "query" THEN response = "no_answer"
             ELSE events = <<"sources", "content", "done">>

\* retrieve found candidates in neither store for a top_k above 0, and the
\* query was answered with the fixed answer
C16_Witness ==
    /\ endpoint = "query"
    /\ top_k > 0
    /\ rpc = "returned"
    /\ returned = << >>
    /\ spc = "done"
    /\ response = "no_answer"
    /\ gen_calls = 0

\* C17: the session _db_retrieval acquired is released when the task ends,
\* however it ends (with its list, with the exception of the query, after
\* the vector retrieval failed, or cancelled), and once a cancelled call of
\* retrieve has raised, neither sub-retrieval is still in flight.
C17_ReleasedAndQuiescent ==
    /\ dtask \in {"done", "failed", "cancelled"} => session # "open"
    /\ rpc = "cancelled" =>
          /\ vtask \notin Unfinished
          /\ dtask \notin Unfinished

\* the semantic score of a candidate: its prior score, 0.5 when that is
\* not above 0
Sem(c) == IF c.score.n > 0 THEN c.score ELSE Frac(1, 2)

\* the rank _rerank gave the merged candidate c
RankOf(c) ==
    CHOOSE j \in 1..Len(reranked_results) :
        Ident(reranked_results[j]) = Ident(c)

\* C18: for a query with no geo filter and no time filter every candidate
\* has the geo and the time sub-score 1.0 and the final score 0.6*s + 0.4,
\* and of two candidates the one with the higher semantic score is ranked
\* ahead of the other.
C18_FilterlessIsSemantic ==
    (/\ "rerank" \in calls
     /\ raised = "none"
     /\ query_intent.geo_filter = None
     /\ query_intent.time_filter = None) =>
        /\ \A c \in Range(merged_results) :
              /\ FEq(geo_score(c, query_intent), FOne)
              /\ FEq(time_score(c, query_intent), FOne)
              /\ FEq(ScoreAfter(c),
                     Frac(6 * Sem(c).n + 4 * Sem(c).d, 10 * Sem(c).d))
        /\ \A c1, c2 \in Range(merged_results) :
              FLt(Sem(c2), Sem(c1)) => RankOf(c1) < RankOf(c2)

\* without filters, _rerank moved a vector hit with prior score 0.8 ahead
\* of a candidate merged before it, and gave a database candidate with
\* score 0 and no geo or time data the final score 0.70
C18_Witness ==
    /\ "rerank" \in calls
    /\ raised = "none"
    /\ query_intent.geo_filter = None
    /\ query_intent.time_filter = None
    /\ \E i, j \in 1..Len(merged_results) :
          /\ i < j
          /\ FEq(merged_results[j].score, Frac(8, 10))
          /\ FLt(Sem(merged_results[i]), Sem(merged_results[j]))
          /\ RankOf(merged_results[j]) < RankOf(merged_results[i])
    /\ \E c \in Range(merged_results) :
          /\ c.score.n = 0
          /\ NoGeoTimeData(c)
          /\ FEq(ScoreAfter(c), Frac(70, 100))

\* the first position of entry_id in seq, or 0
FirstIndex(seq, entry_id) ==
    IF entry_id \in EntryIds(seq)
    THEN CHOOSE i \in 1..Len(seq) :
            /\ seq[i].payload.entry_id = entry_id
            /\ \A j \in 1..(i - 1) : seq[j].payload.entry_id # entry_id
    ELSE 0

\* entry e1 is inserted before entry e2: both of the vector list in that
\* list's order, a vector entry before a database-only one, both
\* database-only in the database list's order
InsertedBefore(e1, e2) ==
    LET v1 == FirstIndex(vector_results, e1)
        v2 == FirstIndex(vector_results, e2)
    IN  IF v1 > 0 /\ v2 > 0 THEN v1 < v2
        ELSE IF v1 > 0 \/ v2 > 0 THEN v1 > 0
        ELSE FirstIndex(db_results, e1) < FirstIndex(db_results, e2)

\* the rank the final scores and the merge order give the k-th merged
\* candidate: behind every candidate with a higher final score and every
\* earlier candidate with the same final score
StableRank(k) ==
    1 + Cardinality({m \in 1..Len(merged_results) :
                        FLt(final_score(merged_results[k], query_intent),
                            final_score(merged_results[m], query_intent))})
      + Cardinality({m \in 1..(k - 1) :
                        FEq(final_score(merged_results[k], query_intent),
                            final_score(merged_results[m], query_intent))})

\* C19: the ranking is a function of the two result lists and the intent,
\* with a stable tie-break.  The merged list is in insertion order (vector
\* results in their order, then database-only results in theirs); every
\* candidate's rank is fixed by the final scores and that order, equal
\* final scores keeping the merge order; retrieve returns the first top_k
\* of that ranking.
C19_StableRanking ==
    /\ "merge" \in calls =>
          \A i, j \in 1..Len(merged_results) :
              i < j => InsertedBefore(merged_results[i].payload.entry_id,
                                      merged_results[j].payload.entry_id)
    /\ ("rerank" \in calls /\ raised = "none") =>
          /\ \A k \in 1..Len(merged_results) :
                Ident(reranked_results[StableRank(k)])
                   = Ident(merged_results[k])
          /\ \A i, j \in 1..Len(merged_results) :
                (i < j /\ FEq(ScoreAfter(merged_results[i]),
                              ScoreAfter(merged_results[j])))
                   => RankOf(merged_results[i]) < RankOf(merged_results[j])
    /\ rpc = "returned" =>
          \A k \in 1..Len(merged_results) :
              StableRank(k) <= Len(returned)
                 => Ident(returned[StableRank(k)]) = Ident(merged_results[k])

\* _rerank ranked two candidates with the same final score, a vector hit
\* and a database-only candidate, and moved a third candidate ahead of
\* both
C19_Witness ==
    /\ "rerank" \in calls
    /\ raised = "none"
    /\ \E i, j, k \in 1..Len(merged_results) :
          /\ i < j /\ j < k
          /\ merged_results[i] \in Range(vector_results)
          /\ merged_results[j] \in Range(db_results)
          /\ FEq(ScoreAfter(merged_results[i]), ScoreAfter(merged_results[j]))
          /\ RankOf(merged_results[k]) < RankOf(merged_results[i])
          /\ RankOf(merged_results[i]) < RankOf(merged_results[j])

\* C20: when an entry_id occurs in more than one result given to
\* _merge_results (in both lists, or several times in one), the merged
\* entry of that entry_id has the highest score among those results.
C20_MergeKeepsHighest ==
    "merge" \in calls =>
        \A m \in Range(merged_results) :
            \A r \in Range(vector_results) \cup Range(db_results) :
                r.payload.entry_id = m.payload.entry_id
                   => FLeq(r.score, m.score)

====
